---- MODULE Spec2Model ----
(***************************************************************************)
(* astro-htaccess: the integration returned by integration(config), with   *)
(* its two hooks astro:config:setup and astro:build:done (src/htaccess.ts). *)
(*                                                                         *)
(* A JavaScript string is a sequence of one-character strings, so that the *)
(* string operations of the code (slice, replaceAll, endsWith, regular     *)
(* expression matching, template literals) are computed and not assumed.   *)
(***************************************************************************)
EXTENDS Integers, Sequences, FiniteSets

VARIABLES
    cfg,                \* the Config object passed to integration()
    fs,                 \* the .htaccess file of every candidate output directory
    assetsDir,          \* closure variable assetsDir (line 43)
    enabled,            \* closure variable enabled (line 44)
    pc,                 \* which hook of the build lifecycle runs next
    calls,              \* number of invocations of generateHtaccessFile()
    log,                \* messages handed to the hooks' logger
    routes,             \* the route table of the build, handed to astro:build:done
    handledErrorCodes,  \* local of astro:build:done (line 92)
    error,              \* local of astro:build:done (line 93)
    htaccess,           \* local of astro:build:done (line 94)
    writes              \* the chunks handed to writeFile (line 181), in order

vars == <<cfg, fs, assetsDir, enabled, pc, calls, log, routes,
          handledErrorCodes, error, htaccess, writes>>

-----------------------------------------------------------------------------
(* Bounds of the model *)

MaxCustomRules == 1
MaxErrorPages == 2
MaxRedirects == 2
MaxRoutes == 2
MaxPatLen == 7
MaxEscapedLen == 4

-----------------------------------------------------------------------------
(* JavaScript values *)

Undefined == [t |-> "undefined"]
Null == [t |-> "null"]
Bool(b) == [t |-> "boolean", b |-> b]
Fn(result) == [t |-> "function", result |-> result]
Array(v) == [t |-> "array", v |-> v]
Path(dir) == [t |-> "path", dir |-> dir]
Num(n) == [t |-> "number", n |-> n]
Str(s) == [t |-> "string", s |-> s]
RegExpOf(source, flags) == [t |-> "regexp", source |-> source, flags |-> flags]
Obj(destination) == [t |-> "object", destination |-> destination]

NL == "\n"
BS == "\\"

Digit == <<"0", "1", "2", "3", "4", "5", "6", "7", "8", "9">>

DigitValue(c) == CHOOSE d \in 0..9 : Digit[d + 1] = c

IsDigit(c) == \E d \in 0..9 : Digit[d + 1] = c

\* Number.prototype.toString of a non-negative integer
RECURSIVE NumToString(_)
NumToString(n) ==
    IF n < 10 THEN <<Digit[n + 1]>>
    ELSE NumToString(n \div 10) \o <<Digit[(n % 10) + 1]>>

\* parseInt of a string of decimal digits
RECURSIVE ParseInt(_)
ParseInt(s) ==
    IF s = <<>> THEN 0
    ELSE 10 * ParseInt(SubSeq(s, 1, Len(s) - 1)) + DigitValue(s[Len(s)])

\* does pat occur in s at index i (1-based)
StartsAt(s, pat, i) ==
    /\ i + Len(pat) - 1 <= Len(s)
    /\ SubSeq(s, i, i + Len(pat) - 1) = pat

\* String.prototype.endsWith
EndsWith(s, suffix) ==
    /\ Len(suffix) <= Len(s)
    /\ SubSeq(s, Len(s) - Len(suffix) + 1, Len(s)) = suffix

\* String.prototype.replaceAll with a string pattern
RECURSIVE ReplaceAllFrom(_, _, _, _)
ReplaceAllFrom(s, pat, rep, i) ==
    IF i > Len(s) THEN <<>>
    ELSE IF StartsAt(s, pat, i)
         THEN rep \o ReplaceAllFrom(s, pat, rep, i + Len(pat))
         ELSE <<s[i]>> \o ReplaceAllFrom(s, pat, rep, i + 1)

ReplaceAll(s, pat, rep) == ReplaceAllFrom(s, pat, rep, 1)

\* String.prototype.search("\n") > -1
HasLineBreak(s) == \E i \in 1..Len(s) : s[i] = NL

\* Array.prototype.join
RECURSIVE Join(_, _)
Join(lines, sep) ==
    IF lines = <<>> THEN <<>>
    ELSE IF Len(lines) = 1 THEN lines[1]
         ELSE lines[1] \o sep \o Join(Tail(lines), sep)

\* the template-literal conversion of a value to a string
TemplateString(v) ==
    IF v.t = "number" THEN NumToString(v.n) ELSE v.s

\* the operator ??
Nullish(v, default) == IF v.t = "undefined" THEN default ELSE v

\* truthiness of a string-or-undefined value
Truthy(v) == v.t = "string" /\ v.s # <<>>

-----------------------------------------------------------------------------
(* Literal text of the source *)

DotHtml == <<".", "h", "t", "m", "l">>
Slash == <<"/">>
Space == <<" ">>
Pct20 == <<"%", "2", "0">>
KwErrorDocument == <<"E", "r", "r", "o", "r", "D", "o", "c", "u", "m", "e", "n", "t", " ">>
KwRedirectMatch == <<"R", "e", "d", "i", "r", "e", "c", "t", "M", "a", "t", "c", "h", " ">>
IndexSuffix == <<"(", "/", "(", "i", "n", "d", "e", "x", ".", "h", "t", "m", "l", ")", "?", ")", "?", "$", " ">>

-----------------------------------------------------------------------------
\* errorPageRegex (line 39): a slash, one of 3 4 5, two digits, anchored

\* route.match(errorPageRegex): the capture group 1, or <<>> when there is no match
ErrorPageMatch(route) ==
    IF /\ Len(route) = 4
       /\ route[1] = "/"
       /\ route[2] \in {"3", "4", "5"}
       /\ IsDigit(route[3])
       /\ IsDigit(route[4])
    THEN SubSeq(route, 2, 4)
    ELSE <<>>

-----------------------------------------------------------------------------
\* spaceInCharacterMatchingRegex (line 40), a global regular expression:
\*     ( [^\\] | ^ )  \[  ( (?: \\\] | [^ ] )* )  " "  ( (?: \\\] | [^ ] )* )  \]
\* Both starred groups accept every character but the space (a backslash
\* is accepted by [^ ] too), so after the "[" group 2 runs to the first
\* space, and group 3, being greedy, runs to the last "]" before the next
\* space or the end of the string.

Min(S) == CHOOSE x \in S : \A y \in S : x <= y
Max(S) == CHOOSE x \in S : \A y \in S : x >= y

\* index of the first space after index i, or Len(s) + 1
NextSpace(s, i) ==
    LET S == {j \in (i + 1)..Len(s) : s[j] = " "}
    IN  IF S = {} THEN Len(s) + 1 ELSE Min(S)

\* with "[" at index open: the index of the "]" that ends the match, or 0
BracketClose(s, open) ==
    LET sp == NextSpace(s, open)
        C == {j \in (sp + 1)..(NextSpace(s, sp) - 1) : s[j] = "]"}
    IN  IF sp > Len(s) \/ C = {} THEN 0 ELSE Max(C)

\* the match that starts at index p: first alternative [^\\], then ^
RegexMatchAt(s, p) ==
    IF /\ p + 1 <= Len(s)
       /\ s[p] # BS
       /\ s[p + 1] = "["
       /\ BracketClose(s, p + 1) # 0
    THEN [ok |-> TRUE, pre |-> <<s[p]>>, open |-> p + 1, close |-> BracketClose(s, p + 1)]
    ELSE IF /\ p = 1
            /\ p <= Len(s)
            /\ s[p] = "["
            /\ BracketClose(s, p) # 0
         THEN [ok |-> TRUE, pre |-> <<>>, open |-> p, close |-> BracketClose(s, p)]
         ELSE [ok |-> FALSE, pre |-> <<>>, open |-> 0, close |-> 0]

\* the replacement "$1(?:[$2$3]|%20)" of one match
BracketReplacement(s, m) ==
    LET sp == NextSpace(s, m.open)
    IN  m.pre \o <<"(", "?", ":", "[">>
              \o SubSeq(s, m.open + 1, sp - 1)
              \o SubSeq(s, sp + 1, m.close - 1)
              \o <<"]", "|">> \o Pct20 \o <<")">>

\* replaceAll(spaceInCharacterMatchingRegex, "$1(?:[$2$3]|%20)") from index i on
RECURSIVE ReplaceBracketsFrom(_, _)
ReplaceBracketsFrom(s, i) ==
    LET P == {p \in i..Len(s) : RegexMatchAt(s, p).ok}
    IN  IF P = {} THEN SubSeq(s, i, Len(s))
        ELSE LET m == RegexMatchAt(s, Min(P))
             IN  SubSeq(s, i, Min(P) - 1) \o BracketReplacement(s, m)
                     \o ReplaceBracketsFrom(s, m.close + 1)

\* RegExp.prototype.toString
RegExpToString(re) == Slash \o re.source \o Slash \o re.flags

\* String.prototype.slice(1, -1)
Slice1(s) == IF Len(s) < 2 THEN <<>> ELSE SubSeq(s, 2, Len(s) - 1)

\* lines 157-166: the Apache pattern of a RegExp match
TranslateMatch(re) ==
    ReplaceAll(
        ReplaceBracketsFrom(
            ReplaceAll(Slice1(RegExpToString(re)), <<BS, "/">>, Slash), 1),
        Space, Pct20)

-----------------------------------------------------------------------------
(* node:path posix.join *)

\* the segments of a path between its slashes
RECURSIVE SplitFrom(_, _, _)
SplitFrom(p, i, cur) ==
    IF i > Len(p) THEN <<cur>>
    ELSE IF p[i] = "/" THEN <<cur>> \o SplitFrom(p, i + 1, <<>>)
         ELSE SplitFrom(p, i + 1, Append(cur, p[i]))

\* normalizeString: drops "" and ".", resolves ".."
RECURSIVE NormalizeSegments(_, _, _)
NormalizeSegments(segs, acc, isAbsolute) ==
    IF segs = <<>> THEN acc
    ELSE LET h == Head(segs)
         IN  IF h = <<>> \/ h = <<".">>
             THEN NormalizeSegments(Tail(segs), acc, isAbsolute)
             ELSE IF h = <<".", ".">>
                  THEN IF acc # <<>> /\ acc[Len(acc)] # <<".", ".">>
                       THEN NormalizeSegments(Tail(segs), SubSeq(acc, 1, Len(acc) - 1), isAbsolute)
                       ELSE IF isAbsolute
                            THEN NormalizeSegments(Tail(segs), acc, isAbsolute)
                            ELSE NormalizeSegments(Tail(segs), Append(acc, h), isAbsolute)
                  ELSE NormalizeSegments(Tail(segs), Append(acc, h), isAbsolute)

PosixNormalize(p) ==
    IF p = <<>> THEN <<".">>
    ELSE LET isAbsolute == p[1] = "/"
             trailing == p[Len(p)] = "/"
             body == Join(NormalizeSegments(SplitFrom(p, 1, <<>>), <<>>, isAbsolute), Slash)
             rel == IF body = <<>>
                    THEN IF isAbsolute THEN <<>> ELSE <<".">>
                    ELSE IF trailing THEN body \o Slash ELSE body
         IN  IF isAbsolute THEN Slash \o rel ELSE rel

\* pathPosix.join(a, b)
PosixJoin(a, b) ==
    IF a = <<>> THEN PosixNormalize(b)
    ELSE IF b = <<>> THEN PosixNormalize(a)
         ELSE PosixNormalize(a \o Slash \o b)

-----------------------------------------------------------------------------
(* The operator "in" of lines 105 and 134 *)

\* the property names an instance of Set has (its own: none; inherited from
\* Set.prototype and Object.prototype)
SetProperties ==
    { <<"s", "i", "z", "e">>, <<"h", "a", "s">>, <<"a", "d", "d">>,
      <<"d", "e", "l", "e", "t", "e">>, <<"c", "l", "e", "a", "r">>,
      <<"k", "e", "y", "s">>, <<"v", "a", "l", "u", "e", "s">>,
      <<"e", "n", "t", "r", "i", "e", "s">>, <<"f", "o", "r", "E", "a", "c", "h">>,
      <<"c", "o", "n", "s", "t", "r", "u", "c", "t", "o", "r">>,
      <<"t", "o", "S", "t", "r", "i", "n", "g">>,
      <<"v", "a", "l", "u", "e", "O", "f">> }

\* code in handledErrorCodes: is the number, as a property key, a property of
\* the Set object (the elements of the set are not its properties)
InSet(code, handled) == NumToString(code) \in SetProperties

-----------------------------------------------------------------------------
(* The logger *)

Msg(level, msg, arg) == [level |-> level, msg |-> msg, arg |-> arg]

-----------------------------------------------------------------------------
(* lines 49-56 and 76-83: the lazy evaluation of generateHtaccessFile *)

\* the value assigned to enabled when it is null
EnabledValue(g) ==
    IF g.t = "undefined" THEN Bool(TRUE)
    ELSE IF g.t = "function" THEN Bool(~g.result)
         ELSE Bool(~g.b)

ResolveEnabled(e, g) == IF e = Null THEN EnabledValue(g) ELSE e

CallsMade(e, g) == IF e = Null /\ g.t = "function" THEN 1 ELSE 0

-----------------------------------------------------------------------------
(* astro:config:setup, lines 48-74 *)

VercelAdapters == {"@astrojs/vercel", "@astrojs/vercel/static", "@astrojs/vercel/serverless"}

\* lines 65-73: the output directory of the adapter
AssetsDirOf(config) ==
    IF config.adapter \in VercelAdapters THEN Path("root/.vercel/output/static")
    ELSE IF config.adapter = "@astrojs/cloudflare" THEN Path("outDir/base")
         ELSE IF config.adapter = "@astrojs/node" THEN Path("build.client")
              ELSE Path("outDir")

Dirs == {"root/.vercel/output/static", "outDir/base", "build.client", "outDir"}

ConfigSetup(config) ==
    /\ pc = "astro:config:setup"
    /\ pc' = "astro:build:done"
    /\ enabled' = ResolveEnabled(enabled, cfg.generateHtaccessFile)
    /\ calls' = calls + CallsMade(enabled, cfg.generateHtaccessFile)
    /\ IF ~enabled'.b
       THEN /\ log' = Append(log, Msg("debug", "generateHtaccessFile evaluated to false; skipping integration config.", <<>>))
            /\ assetsDir' = assetsDir
       ELSE IF config.output = "server"
            THEN /\ log' = Append(log, Msg("warn", "Cannot generate .htaccess file in SSR mode.", <<>>))
                 /\ assetsDir' = assetsDir
            ELSE /\ log' = log
                 /\ assetsDir' = AssetsDirOf(config)
    /\ UNCHANGED <<cfg, fs, routes, handledErrorCodes, error, htaccess, writes>>

-----------------------------------------------------------------------------
(* astro:build:done, lines 75-184.  The four functions of the htaccess     *)
(* array run in order over the shared locals error and handledErrorCodes;  *)
(* st is the record of those locals, the lines produced so far and the log *)

\* line 111
ErrorDocumentOfRule(code, document) ==
    KwErrorDocument \o NumToString(code) \o Space
        \o PosixJoin(Slash, IF EndsWith(document, DotHtml) THEN document ELSE document \o DotHtml)

\* lines 100-112: the callback of errorPages.map, for one rule
ErrorPageStep(st, rule) ==
    IF st.error THEN [st EXCEPT !.lines = Append(@, <<>>)]
    ELSE IF InSet(rule.code, st.handled)
         THEN [st EXCEPT !.lines = Append(@, <<>>),
                         !.error = TRUE,
                         !.log = Append(@, Msg("error", "Duplicated error code detected!", NumToString(rule.code)))]
         ELSE [st EXCEPT !.lines = Append(@, ErrorDocumentOfRule(rule.code, rule.document)),
                         !.handled = @ \cup {rule.code}]

RECURSIVE MapErrorPages(_, _)
MapErrorPages(st, rules) ==
    IF rules = <<>> THEN st
    ELSE MapErrorPages(ErrorPageStep(st, Head(rules)), Tail(rules))

\* lines 98-113
UserErrorPages(st, errorPages) ==
    IF ~st.error /\ errorPages.t = "array" THEN MapErrorPages(st, errorPages.v) ELSE st

\* line 121
DestinationOf(redirect) ==
    IF redirect.t = "string" THEN redirect
    ELSE IF redirect.t = "undefined" THEN Undefined
         ELSE redirect.destination

\* line 123
RedirectOfRoute(route, destination) ==
    KwRedirectMatch \o <<"3", "0", "1", " ", "^">> \o route \o IndexSuffix \o destination

\* line 140
ErrorDocumentOfRoute(code, route) ==
    KwErrorDocument \o NumToString(code) \o Space
        \o (IF EndsWith(route, DotHtml) THEN route ELSE route \o DotHtml)

\* RedirectRouteStep with a missing destination made fatal
RedirectRouteStepFatal(st, r) ==
    IF Truthy(DestinationOf(r.redirect))
    THEN [st EXCEPT !.lines = Append(@, RedirectOfRoute(r.route, DestinationOf(r.redirect).s))]
    ELSE [st EXCEPT !.error = TRUE,
                    !.log = Append(@, Msg("warn", "No destination found for redirect route! Skipping.", r.route))]

\* lines 120-127: a route of type "redirect"
RedirectRouteStep(st, r) ==
    IF Truthy(DestinationOf(r.redirect))
    THEN [st EXCEPT !.lines = Append(@, RedirectOfRoute(r.route, DestinationOf(r.redirect).s))]
    ELSE [st EXCEPT !.log = Append(@, Msg("warn", "No destination found for redirect route! Skipping.", r.route))]

\* AutoDiscovery testing errorPages for emptiness instead of absence
AutoDiscoveryWhenEmpty(errorPages) == errorPages = Undefined \/ errorPages = Array(<<>>)

\* line 129: are error pages looked for among the page routes
AutoDiscovery(errorPages) == errorPages = Undefined

\* lines 128-143: a route of type "page"
PageRouteStep(st, r, errorPages) ==
    IF AutoDiscovery(errorPages) /\ ErrorPageMatch(r.route) # <<>>
    THEN LET code == ParseInt(ErrorPageMatch(r.route))
         IN  IF InSet(code, st.handled)
             THEN [st EXCEPT !.error = TRUE,
                             !.log = Append(@, Msg("error", "Duplicated error code detected!", NumToString(code)))]
             ELSE [st EXCEPT !.lines = Append(@, ErrorDocumentOfRoute(code, r.route)),
                             !.handled = @ \cup {code}]
    ELSE st

\* lines 117-146: the callback of routes.reduce, for one route
RouteStep(st, r, errorPages) ==
    IF st.error THEN st
    ELSE IF r.type = "redirect" THEN RedirectRouteStep(st, r)
         ELSE IF r.type = "page" THEN PageRouteStep(st, r, errorPages)
              ELSE st

RECURSIVE ReduceRoutes(_, _, _)
ReduceRoutes(st, rs, errorPages) ==
    IF rs = <<>> THEN st
    ELSE ReduceRoutes(RouteStep(st, Head(rs), errorPages), Tail(rs), errorPages)

\* lines 115-148
GeneratorRules(st, rs, errorPages) ==
    IF ~st.error THEN ReduceRoutes(st, rs, errorPages) ELSE st

\* RedirectOfRule with another default status
RedirectOfRuleTemp(code, match, url) ==
    KwRedirectMatch \o TemplateString(Nullish(code, Num(302))) \o Space \o match \o Space \o url

\* line 173
RedirectOfRule(code, match, url) ==
    KwRedirectMatch \o TemplateString(Nullish(code, Num(301))) \o Space \o match \o Space \o url

\* RedirectStep without the test for a line break
RedirectStepUnchecked(st, rule) ==
    IF st.error THEN [st EXCEPT !.lines = Append(@, <<>>)]
    ELSE LET match == IF rule.match.t # "string" THEN TranslateMatch(rule.match) ELSE rule.match.s
         IN  [st EXCEPT !.lines = Append(@, RedirectOfRule(rule.code, match, rule.url))]

\* lines 152-174: the callback of redirects.map, for one rule
RedirectStep(st, rule) ==
    IF st.error THEN [st EXCEPT !.lines = Append(@, <<>>)]
    ELSE LET match == IF rule.match.t # "string" THEN TranslateMatch(rule.match) ELSE rule.match.s
         IN  IF rule.match.t # "string" /\ HasLineBreak(match)
             THEN [st EXCEPT !.lines = Append(@, <<>>),
                             !.error = TRUE,
                             !.log = Append(@, Msg("error", "Invalid line break in regex for", rule.url))]
             ELSE [st EXCEPT !.lines = Append(@, RedirectOfRule(rule.code, match, rule.url))]

RECURSIVE MapRedirects(_, _)
MapRedirects(st, rules) ==
    IF rules = <<>> THEN st
    ELSE MapRedirects(RedirectStep(st, Head(rules)), Tail(rules))

\* lines 150-175
UserRedirects(st, redirects) ==
    IF ~st.error /\ redirects.t = "array" THEN MapRedirects(st, redirects.v) ELSE st

\* line 96: customRules ?? []
CustomRules(st, customRules) ==
    IF customRules.t = "array" THEN [st EXCEPT !.lines = @ \o customRules.v] ELSE st

\* Generate with the redirects of the user ahead of the generator's routes
GenerateRedirectsFirst(c, rs, lg) ==
    GeneratorRules(
        UserRedirects(
            UserErrorPages(
                CustomRules([lines |-> <<>>, error |-> FALSE, handled |-> {}, log |-> lg],
                            c.customRules),
                c.errorPages),
            c.redirects),
        rs, c.errorPages)

\* lines 92-178
Generate(c, rs, lg) ==
    UserRedirects(
        GeneratorRules(
            UserErrorPages(
                CustomRules([lines |-> <<>>, error |-> FALSE, handled |-> {}, log |-> lg],
                            c.customRules),
                c.errorPages),
            rs, c.errorPages),
        c.redirects)

\* Chunks without the separator
ChunksUnseparated(file, lines) == <<<<>>, Join(lines, <<NL>>)>>

\* line 181: the two chunks handed to writeFile
Chunks(file, lines) == <<IF file.exists THEN <<NL>> ELSE <<>>, Join(lines, <<NL>>)>>

\* writeFile with flag "a": the chunks are appended, the file is created if absent
AppendFile(file, chunks) == [exists |-> TRUE, data |-> file.data \o chunks[1] \o chunks[2]]

GeneratedMsg(n) ==
    Msg("info", IF n = 1 THEN "Generated .htaccess with rule" ELSE "Generated .htaccess with rules", NumToString(n))

BuildDone ==
    /\ pc = "astro:build:done"
    /\ pc' = "done"
    /\ enabled' = ResolveEnabled(enabled, cfg.generateHtaccessFile)
    /\ calls' = calls + CallsMade(enabled, cfg.generateHtaccessFile)
    /\ IF ~enabled'.b
       THEN /\ log' = Append(log, Msg("debug", "generateHtaccessFile evaluated to false; skipping .htaccess generation.", <<>>))
            /\ UNCHANGED <<fs, handledErrorCodes, error, htaccess, writes>>
       ELSE IF assetsDir = Null
            THEN /\ log' = Append(log, Msg("warn", "Cannot generate .htaccess file in SSR mode.", <<>>))
                 /\ UNCHANGED <<fs, handledErrorCodes, error, htaccess, writes>>
            ELSE LET st == Generate(cfg, routes, log)
                     chunks == Chunks(fs[assetsDir.dir], st.lines)
                 IN  /\ handledErrorCodes' = st.handled
                     /\ error' = st.error
                     /\ htaccess' = st.lines
                     /\ IF ~st.error
                        THEN /\ writes' = chunks
                             /\ fs' = [fs EXCEPT ![assetsDir.dir] = AppendFile(@, chunks)]
                             /\ log' = Append(st.log, GeneratedMsg(Len(st.lines)))
                        ELSE /\ log' = st.log
                             /\ UNCHANGED <<fs, writes>>
    /\ UNCHANGED <<cfg, assetsDir, routes>>

-----------------------------------------------------------------------------
(* The inputs: the Config of the user, the files on disk, the Astro config  *)
(* and the route table of the build                                        *)

SeqsUpTo(S, n) == UNION {[1..k -> S] : k \in 0..n}

ArraysUpTo(S, n) == {Array(v) : v \in SeqsUpTo(S, n)}

GenerateOptions == {Undefined, Bool(TRUE), Bool(FALSE), Fn(TRUE), Fn(FALSE)}

CustomLines == {<<"A">>, <<"B">>}

ErrorPageRule(code, document) == [code |-> code, document |-> document]

ErrorPageRules ==
    { ErrorPageRule(404, <<"/", "e">>),
      ErrorPageRule(404, <<"e", ".", "h", "t", "m", "l">>),
      ErrorPageRule(500, <<"/", "e">>) }

RedirectRule(code, match, url) == [code |-> code, match |-> match, url |-> url]

RedirectCodes ==
    { Undefined,
      Num(301), Str(<<"p", "e", "r", "m", "a", "n", "e", "n", "t">>),
      Num(302), Str(<<"t", "e", "m", "p">>),
      Num(303), Str(<<"s", "e", "e", "o", "t", "h", "e", "r">>),
      Num(410), Str(<<"g", "o", "n", "e">>) }

StringMatch == Str(<<"^", "/", "g">>)

RegExpMatches ==
    { RegExpOf(<<"^", BS, "/", "p", "$">>, <<>>),
      RegExpOf(<<"a", " ", "b">>, <<>>),
      RegExpOf(<<"a">>, <<"i">>) }

\* a match whose text holds a line break
LineBreakMatch == RegExpOf(<<"a", NL, "b">>, <<>>)

Urls == {<<"/", "u">>, <<"/", "v">>}

RedirectRules ==
    {RedirectRule(c, StringMatch, <<"/", "u">>) : c \in RedirectCodes}
        \cup {RedirectRule(Undefined, m, <<"/", "u">>) : m \in RegExpMatches}
        \cup {RedirectRule(Undefined, LineBreakMatch, u) : u \in Urls}

Route(type, route, redirect) == [type |-> type, route |-> route, redirect |-> redirect]

RouteKinds ==
    { Route("page", <<"/", "4", "0", "4">>, Undefined),
      Route("page", <<"/", "5", "0", "0">>, Undefined),
      Route("page", <<"/", "4", "0">>, Undefined),
      Route("redirect", <<"/", "f">>, Str(<<"/", "t">>)),
      Route("redirect", <<"/", "f">>, Obj(Str(<<"/", "t">>))),
      Route("redirect", <<"/", "g">>, Undefined),
      Route("redirect", <<"/", "g">>, Obj(Undefined)),
      Route("redirect", <<"/", "g">>, Str(<<>>)),
      Route("endpoint", <<"/", "x">>, Undefined) }

RouteTables == SeqsUpTo(RouteKinds, MaxRoutes)

AstroConfigs ==
    {[output |-> "static", adapter |-> a] :
        a \in {"none", "@astrojs/vercel/serverless", "@astrojs/cloudflare", "@astrojs/node", "@astrojs/netlify"}}
        \cup {[output |-> "server", adapter |-> "@astrojs/node"]}

NoFile == [exists |-> FALSE, data |-> <<>>]

File(data) == [exists |-> TRUE, data |-> data]

\* what a .htaccess file left by an earlier build or by the user holds
OldFiles == {File(<<>>), File(<<"A">>), File(<<"A", NL>>)}

FileSystems(dirs, files) ==
    {[d \in Dirs |-> NoFile]}
        \cup {[d \in Dirs |-> IF d = e THEN f ELSE NoFile] : e \in dirs, f \in files}

Configs(G, C, E, R) ==
    [generateHtaccessFile : G, customRules : C, errorPages : E, redirects : R]

\* the state after integration(cfg), lines 42-44
Constructed ==
    /\ assetsDir = Null
    /\ enabled = Bool(TRUE)
    /\ pc = "astro:config:setup"
    /\ calls = 0
    /\ log = <<>>
    /\ handledErrorCodes = {}
    /\ error = FALSE
    /\ htaccess = <<>>
    /\ writes = <<>>

Next ==
    \/ \E config \in AstroConfigs : ConfigSetup(config)
    \/ BuildDone

\* the lifecycle of one build, over every form of generateHtaccessFile and
\* every place of an earlier .htaccess file
Init ==
    /\ cfg \in Configs(GenerateOptions,
                       {Undefined} \cup ArraysUpTo({<<"A">>}, MaxCustomRules),
                       {Undefined},
                       {Undefined, Array(<<RedirectRule(Undefined, LineBreakMatch, <<"/", "u">>)>>)})
    /\ fs \in FileSystems(Dirs, OldFiles)
    /\ routes \in SeqsUpTo({Route("redirect", <<"/", "f">>, Str(<<"/", "t">>)),
                            Route("page", <<"/", "4", "0", "4">>, Undefined)}, MaxRoutes)
    /\ Constructed

Spec == Init /\ [][Next]_vars

\* the four sources together, over every route table
InitGen ==
    /\ cfg \in Configs({Undefined},
                       {Undefined, Array(<<<<"A">>, <<"B">>>>)},
                       {Undefined, Array(<<>>),
                        Array(<<ErrorPageRule(404, <<"/", "e">>), ErrorPageRule(500, <<"e", ".", "h", "t", "m", "l">>)>>)},
                       {Undefined,
                        Array(<<RedirectRule(Num(302), StringMatch, <<"/", "u">>),
                                RedirectRule(Undefined, RegExpOf(<<"a", " ", "b">>, <<>>), <<"/", "v">>)>>),
                        Array(<<RedirectRule(Undefined, LineBreakMatch, <<"/", "u">>)>>)})
    /\ fs \in FileSystems({"outDir"}, {File(<<"A">>)})
    /\ routes \in RouteTables
    /\ Constructed

SpecGen == InitGen /\ [][Next]_vars

\* the error pages of the user and of the route table
InitErr ==
    /\ cfg \in Configs({Undefined},
                       {Undefined, Array(<<<<"A">>>>)},
                       {Undefined} \cup ArraysUpTo(ErrorPageRules, MaxErrorPages),
                       {Undefined})
    /\ fs \in FileSystems({"outDir"}, {File(<<"A">>)})
    /\ routes \in SeqsUpTo({Route("page", <<"/", "4", "0", "4">>, Undefined),
                            Route("page", <<"/", "5", "0", "0">>, Undefined),
                            Route("page", <<"/", "4", "0">>, Undefined),
                            Route("endpoint", <<"/", "4", "0", "4">>, Undefined)}, MaxRoutes)
    /\ Constructed

SpecErr == InitErr /\ [][Next]_vars

\* the redirects of the user
InitRedir ==
    /\ cfg \in Configs({Undefined},
                       {Undefined, Array(<<<<"A">>>>)},
                       {Undefined},
                       {Undefined} \cup ArraysUpTo(RedirectRules, MaxRedirects))
    /\ fs \in FileSystems({"outDir"}, {File(<<"A">>)})
    /\ routes = <<Route("redirect", <<"/", "f">>, Str(<<"/", "t">>))>>
    /\ Constructed

SpecRedir == InitRedir /\ [][Next]_vars

\* the source of a regular expression: every backslash escapes a character,
\* a slash is escaped, a class that opens is closed
RECURSIVE ValidSourceFrom(_, _, _)
ValidSourceFrom(s, i, inClass) ==
    IF i > Len(s) THEN ~inClass
    ELSE IF s[i] = BS THEN i + 1 <= Len(s) /\ ValidSourceFrom(s, i + 2, inClass)
         ELSE IF s[i] = "/" THEN FALSE
              ELSE IF s[i] = "[" THEN ValidSourceFrom(s, i + 1, TRUE)
                   ELSE IF s[i] = "]" THEN ValidSourceFrom(s, i + 1, FALSE)
                        ELSE ValidSourceFrom(s, i + 1, inClass)

BracketChars == {"a", " ", "[", "]"}

PatternChars == BracketChars \cup {BS, "/"}

IsSource(s) == s # <<>> /\ ValidSourceFrom(s, 1, FALSE)

\* the longer sources hold letters, spaces and brackets; the shorter ones
\* escapes and slashes too
RegExpSources ==
    {s \in SeqsUpTo(BracketChars, MaxPatLen) : IsSource(s)}
        \cup {s \in SeqsUpTo(PatternChars, MaxEscapedLen) : IsSource(s)}

RegExps == {RegExpOf(s, <<>>) : s \in RegExpSources}

\* one redirect of the user, over every regular expression
InitTr ==
    /\ cfg \in Configs({Undefined}, {Undefined}, {Undefined},
                       {Array(<<RedirectRule(Undefined, re, <<"/", "u">>)>>) : re \in RegExps})
    /\ fs \in FileSystems({}, {})
    /\ routes = <<>>
    /\ Constructed

SpecTr == InitTr /\ [][Next]_vars

-----------------------------------------------------------------------------
(* Vocabulary of the properties *)

\* astro:build:done has returned
Done == pc = "done"

\* astro:build:done has returned from a run that reached the htaccess list
Generated == Done /\ enabled = Bool(TRUE) /\ assetsDir # Null

\* the run handed something to writeFile
Wrote == writes # <<>>

ElementsOf(a) == IF a.t = "array" THEN a.v ELSE <<>>

Count(a) == Len(ElementsOf(a))

ContainsLineBreak(s) == \E i \in 1..Len(s) : s[i] = "\n"

DigitChars == {"0", "1", "2", "3", "4", "5", "6", "7", "8", "9"}

\* a page route that is "/" and a 3-digit number starting with 3, 4 or 5
IsErrorPageRoute(r) ==
    /\ r.type = "page"
    /\ Len(r.route) = 4
    /\ r.route[1] = "/"
    /\ r.route[2] \in {"3", "4", "5"}
    /\ r.route[3] \in DigitChars
    /\ r.route[4] \in DigitChars

\* a redirect route with a destination: a non-empty string, or a descriptor
\* with a non-empty destination
HasDestination(r) ==
    /\ r.type = "redirect"
    /\ \/ r.redirect.t = "string" /\ r.redirect.s # <<>>
       \/ /\ r.redirect.t = "object"
          /\ r.redirect.destination.t = "string"
          /\ r.redirect.destination.s # <<>>

DestinationText(r) ==
    IF r.redirect.t = "string" THEN r.redirect.s ELSE r.redirect.destination.s

\* the log holds a message of that level
Logged(level) == \E i \in 1..Len(log) : log[i].level = level

\* two error-page rules of the user carry the same code
DuplicateUserCodes ==
    \E i, j \in 1..Count(cfg.errorPages) :
        i < j /\ cfg.errorPages.v[i].code = cfg.errorPages.v[j].code

\* two auto-discovered page routes yield the same code
DuplicateRouteCodes ==
    /\ cfg.errorPages = Undefined
    /\ \E i, j \in 1..Len(routes) :
        /\ i < j
        /\ IsErrorPageRoute(routes[i])
        /\ IsErrorPageRoute(routes[j])
        /\ SubSeq(routes[i].route, 2, 4) = SubSeq(routes[j].route, 2, 4)

-----------------------------------------------------------------------------
\* C1: a run in which two error-page rules carry the same code (two rules of
\* errorPages, or two auto-discovered page routes) is marked failed, logs an
\* error and hands nothing to writeFile.
DuplicateCodeAborts ==
    (Generated /\ (DuplicateUserCodes \/ DuplicateRouteCodes))
        => (error /\ Logged("error") /\ ~Wrote)

\* C2: when generateHtaccessFile is false, or a function that resolves to
\* false, then after both hooks no output directory was resolved, no line
\* was computed, nothing was written and only debug messages were logged.
DisabledDoesNothing ==
    (Done /\ cfg.generateHtaccessFile \in {Bool(FALSE), Fn(FALSE)})
        => /\ assetsDir = Null
           /\ htaccess = <<>>
           /\ ~Wrote
           /\ \A i \in 1..Len(log) : log[i].level = "debug"

\* C9: when generateHtaccessFile is a function, it has been called exactly
\* once from astro:config:setup on, astro:build:done included.
PredicateCalledOnce ==
    (pc # "astro:config:setup" /\ cfg.generateHtaccessFile.t = "function")
        => calls = 1

-----------------------------------------------------------------------------
(* The contribution of each source, as the specification states it *)

\* some redirect rule of the user has a RegExp match whose pattern, once
\* translated, holds a line break
InvalidRules ==
    {i \in 1..Count(cfg.redirects) :
        /\ cfg.redirects.v[i].match.t = "regexp"
        /\ ContainsLineBreak(TranslateMatch(cfg.redirects.v[i].match))}

\* does the route contribute a line
Contributes(r) ==
    HasDestination(r) \/ (cfg.errorPages = Undefined /\ IsErrorPageRoute(r))

\* the routes that contribute a line, in the order of the route table
ContributingRoutes == SelectSeq(routes, Contributes)

\* the line a contributing route yields
LineOfRoute(r) ==
    IF r.type = "redirect"
    THEN <<"R", "e", "d", "i", "r", "e", "c", "t", "M", "a", "t", "c", "h", " ", "3", "0", "1", " ", "^">>
            \o r.route
            \o <<"(", "/", "(", "i", "n", "d", "e", "x", ".", "h", "t", "m", "l", ")", "?", ")", "?", "$", " ">>
            \o DestinationText(r)
    ELSE <<"E", "r", "r", "o", "r", "D", "o", "c", "u", "m", "e", "n", "t", " ">>
            \o SubSeq(r.route, 2, 4) \o <<" ">> \o r.route \o <<".", "h", "t", "m", "l">>

NCustom == Count(cfg.customRules)
NErrorPages == Count(cfg.errorPages)
NGenerated == Len(ContributingRoutes)
NRedirects == Count(cfg.redirects)

\* the number of lines of a text
LineCount(text) ==
    IF text = <<>> THEN 0
    ELSE 1 + Cardinality({i \in 1..Len(text) : text[i] = "\n"})

BeginsWith(s, prefix) == Len(prefix) <= Len(s) /\ SubSeq(s, 1, Len(prefix)) = prefix

EndsIn(s, suffix) ==
    Len(suffix) <= Len(s) /\ SubSeq(s, Len(s) - Len(suffix) + 1, Len(s)) = suffix

-----------------------------------------------------------------------------
\* C3: when no translated pattern holds a line break, the text written has
\* one line per customRules entry, per errorPages entry, per contributing
\* route and per redirects entry, in that order of sources, each source in
\* its own input order.
LinesInSourceOrder ==
    (Generated /\ InvalidRules = {})
        => /\ Wrote
           /\ writes[2] = Join(htaccess, <<"\n">>)
           /\ Len(htaccess) = NCustom + NErrorPages + NGenerated + NRedirects
           /\ LineCount(writes[2]) = NCustom + NErrorPages + NGenerated + NRedirects
           /\ \A i \in 1..NCustom : htaccess[i] = cfg.customRules.v[i]
           /\ \A i \in 1..NErrorPages :
                BeginsWith(htaccess[NCustom + i],
                           <<"E", "r", "r", "o", "r", "D", "o", "c", "u", "m", "e", "n", "t", " ">>
                               \o NumToString(cfg.errorPages.v[i].code) \o <<" ">>)
           /\ \A i \in 1..NGenerated :
                htaccess[NCustom + NErrorPages + i] = LineOfRoute(ContributingRoutes[i])
           /\ \A i \in 1..NRedirects :
                /\ BeginsWith(htaccess[NCustom + NErrorPages + NGenerated + i],
                              <<"R", "e", "d", "i", "r", "e", "c", "t", "M", "a", "t", "c", "h", " ">>)
                /\ EndsIn(htaccess[NCustom + NErrorPages + NGenerated + i],
                          <<" ">> \o cfg.redirects.v[i].url)

\* C3 witness: a written file to which all four sources contributed, the
\* route table holding a redirect that is skipped before one that is kept
AllSourcesContribute ==
    /\ Generated /\ Wrote
    /\ NCustom = 2 /\ NErrorPages = 2 /\ NRedirects = 2
    /\ Len(routes) = 2 /\ ~Contributes(routes[1]) /\ HasDestination(routes[2])
    /\ Len(htaccess) = 7

-----------------------------------------------------------------------------
\* the lines of the list that are ErrorDocument directives
ErrorDocumentLines ==
    SelectSeq(htaccess,
              LAMBDA l : BeginsWith(l, <<"E", "r", "r", "o", "r", "D", "o", "c", "u", "m", "e", "n", "t", " ">>))

ErrorPageRoutes == SelectSeq(routes, IsErrorPageRoute)

\* C6: error pages are discovered among the page routes exactly when
\* errorPages is absent: then every page route "/" + 3xx/4xx/5xx code yields
\* the line "ErrorDocument <code> <route>.html"; with errorPages supplied,
\* even empty, the only ErrorDocument lines are those of the user's rules.
DiscoveryIffErrorPagesAbsent ==
    Generated
        => IF cfg.errorPages = Undefined
           THEN /\ Len(ErrorDocumentLines) = Len(ErrorPageRoutes)
                /\ \A i \in 1..Len(ErrorPageRoutes) :
                      ErrorDocumentLines[i] = LineOfRoute(ErrorPageRoutes[i])
           ELSE /\ Len(ErrorDocumentLines) = NErrorPages
                /\ \A i \in 1..NErrorPages :
                      BeginsWith(ErrorDocumentLines[i],
                                 <<"E", "r", "r", "o", "r", "D", "o", "c", "u", "m", "e", "n", "t", " ">>
                                     \o NumToString(cfg.errorPages.v[i].code) \o <<" ">>)

\* C6 witness: errorPages absent and two page routes discovered
TwoPagesDiscovered ==
    /\ Generated
    /\ cfg.errorPages = Undefined
    /\ Len(ErrorPageRoutes) = 2
    /\ Len(ErrorDocumentLines) = 2
    /\ ErrorPageRoutes[1] # ErrorPageRoutes[2]

\* C6 second case reached: errorPages is the empty list, the route table
\* holds an error page route
EmptyListStopsDiscovery ==
    /\ Generated
    /\ cfg.errorPages = Array(<<>>)
    /\ Len(ErrorPageRoutes) > 0
    /\ ErrorDocumentLines = <<>>

-----------------------------------------------------------------------------
\* the redirect routes for which no destination resolves
SkippedRoutes ==
    SelectSeq(routes, LAMBDA r : r.type = "redirect" /\ ~HasDestination(r))

Warnings == SelectSeq(log, LAMBDA m : m.level = "warn")

\* the lines between those of the error pages of the user and those of the
\* redirects of the user
GeneratedLines ==
    SubSeq(htaccess, NCustom + NErrorPages + 1, Len(htaccess) - NRedirects)

\* C10: a redirect route with no destination yields a warning and no line
\* and does not fail the run: the routes after it and the redirects of the
\* user are processed and the file is written; a redirect route with a
\* destination yields "RedirectMatch 301 ^<route>(/(index.html)?)?$ <dest>";
\* routes of another type than redirect and page yield nothing.
SkippedRedirectIsSoft ==
    Generated
        => /\ Len(Warnings) = Len(SkippedRoutes)
           /\ \A i \in 1..Len(SkippedRoutes) : Warnings[i].arg = SkippedRoutes[i].route
           /\ Len(htaccess) = NCustom + NErrorPages + NGenerated + NRedirects
           /\ GeneratedLines = [i \in 1..NGenerated |-> LineOfRoute(ContributingRoutes[i])]
           /\ error => InvalidRules # {}
           /\ Wrote <=> ~error
           /\ InvalidRules = {} =>
                \A i \in 1..NRedirects :
                    htaccess[NCustom + NErrorPages + NGenerated + i] # <<>>

\* C10 witness: a redirect route without destination, then one with, then
\* the redirects of the user, and the file is written
SkippedThenKept ==
    /\ Generated /\ Wrote
    /\ Len(routes) = 2
    /\ routes[1].type = "redirect" /\ ~HasDestination(routes[1])
    /\ HasDestination(routes[2])
    /\ NRedirects = 2
    /\ Len(Warnings) = 1
    /\ Len(GeneratedLines) = 1

-----------------------------------------------------------------------------
\* the step in which astro:build:done runs with the integration enabled and
\* an output directory resolved
BuildStep ==
    /\ pc = "astro:build:done"
    /\ pc' = "done"
    /\ enabled = Bool(TRUE)
    /\ assetsDir # Null

\* C4: if a redirect rule of the user has a RegExp match whose translated
\* pattern holds a line break, the run fails: the last message logged is an
\* error naming the url of the first such rule, that rule and the rules
\* after it contribute no directive, and the lines of the list are not
\* written: no .htaccess file is created or appended to.
InvalidPatternAborts ==
    [][(BuildStep /\ InvalidRules # {})
        => LET first == Min(InvalidRules)
               before == Len(htaccess') - NRedirects
           IN  /\ error'
               /\ log' = Append(log, [level |-> "error",
                                      msg |-> "Invalid line break in regex for",
                                      arg |-> cfg.redirects.v[first].url])
               /\ before = NCustom + NErrorPages + NGenerated
               /\ \A i \in 1..(first - 1) : htaccess'[before + i] # <<>>
               /\ \A i \in first..NRedirects : htaccess'[before + i] = <<>>
               /\ writes' = <<>>
               /\ fs' = fs]_vars

\* C4 witness: the run failed on the first of two redirect rules, with a
\* custom rule and a generator redirect already in the list and a .htaccess
\* file on disk, which is left as it was
AbortedWithLinesPending ==
    /\ Done /\ error
    /\ InvalidRules = {1} /\ NRedirects = 2
    /\ NCustom = 1 /\ NGenerated = 1
    /\ Len(htaccess) = 4 /\ htaccess[1] # <<>> /\ htaccess[2] # <<>>
    /\ assetsDir = Path("outDir")
    /\ fs["outDir"] = File(<<"A">>)
    /\ ~Wrote

-----------------------------------------------------------------------------
\* the numeric status a redirect code stands for
EffectiveStatus(code) ==
    IF code.t = "undefined" THEN 301
    ELSE IF code.t = "number" THEN code.n
         ELSE IF code.s = <<"p", "e", "r", "m", "a", "n", "e", "n", "t">> THEN 301
              ELSE IF code.s = <<"t", "e", "m", "p">> THEN 302
                   ELSE IF code.s = <<"s", "e", "e", "o", "t", "h", "e", "r">> THEN 303
                        ELSE 410

\* the status as the rule spells it: the digits of a number, the keyword of
\* an alias, 301 when there is none
StatusAsGiven(code) ==
    IF code.t = "undefined" THEN <<"3", "0", "1">>
    ELSE IF code.t = "number" THEN NumToString(code.n)
         ELSE code.s

\* the line of the i-th redirect rule of the user
RedirectLine(i) == htaccess[Len(htaccess) - NRedirects + i]

RedirectLineWith(status, rule) ==
    <<"R", "e", "d", "i", "r", "e", "c", "t", "M", "a", "t", "c", "h", " ">>
        \o status \o <<" ">>
        \o (IF rule.match.t = "string" THEN rule.match.s ELSE TranslateMatch(rule.match))
        \o <<" ">> \o rule.url

\* C5 as stated: the status of every emitted RedirectMatch line of the user
\* is the effective numeric status, an alias giving the line of its number
\* and a missing code giving 301.
StatusIsNumeric ==
    (Generated /\ ~error)
        => \A i \in 1..NRedirects :
              RedirectLine(i) =
                  RedirectLineWith(NumToString(EffectiveStatus(cfg.redirects.v[i].code)),
                                   cfg.redirects.v[i])

\* C5 as amended: the status of every emitted RedirectMatch line of the user
\* is the code as the rule gives it, a number in digits and an alias as its
\* keyword (which Apache reads as that number), and 301 for a missing code.
StatusIsAsGiven ==
    (Generated /\ ~error)
        => \A i \in 1..NRedirects :
              RedirectLine(i) =
                  RedirectLineWith(StatusAsGiven(cfg.redirects.v[i].code), cfg.redirects.v[i])

\* C5 witness: a written list with a rule whose code is an alias and a rule
\* without code
AliasAndDefaultEmitted ==
    /\ Generated /\ Wrote
    /\ NRedirects = 2
    /\ cfg.redirects.v[1].code.t = "string"
    /\ cfg.redirects.v[2].code = Undefined
    /\ RedirectLine(1) # <<>> /\ RedirectLine(2) # <<>>

-----------------------------------------------------------------------------
\* a text whose last line is empty: new text put after it follows a blank line
EndsWithBlankLine(text) ==
    /\ text # <<>>
    /\ text[Len(text)] = "\n"
    /\ Len(text) = 1 \/ text[Len(text) - 1] = "\n"

\* C8 as stated: a successful run keeps the content of an existing file as
\* a prefix and appends the directives after a blank separating line; if
\* there was no file, the file is exactly the newline-joined directives.
AppendedAfterBlankLine ==
    [][(BuildStep /\ writes' # <<>>)
        => LET old == fs[assetsDir.dir]
               new == Join(htaccess', <<"\n">>)
               data == fs'[assetsDir.dir].data
           IN  IF old.exists
               THEN /\ Len(data) >= Len(old.data) + Len(new)
                    /\ BeginsWith(data, old.data)
                    /\ EndsIn(data, new)
                    /\ EndsWithBlankLine(SubSeq(data, 1, Len(data) - Len(new)))
               ELSE data = new]_vars

\* C8 as amended: the directives are appended after a single newline
\* character, which leaves a blank line only when the previous content is
\* empty or ends with a newline; no other file is touched.
AppendedAfterNewline ==
    [][(BuildStep /\ writes' # <<>>)
        => LET old == fs[assetsDir.dir]
               new == Join(htaccess', <<"\n">>)
           IN  /\ fs'[assetsDir.dir].exists
               /\ fs'[assetsDir.dir].data =
                      IF old.exists THEN old.data \o <<"\n">> \o new ELSE new
               /\ \A d \in Dirs \ {assetsDir.dir} : fs'[d] = fs[d]]_vars

\* C8 witness: directives appended to a file that held a line without a
\* final newline
AppendedToExistingFile ==
    /\ Generated /\ Wrote
    /\ writes[2] # <<>>
    /\ fs[assetsDir.dir].data = <<"A", "\n">> \o writes[2]

-----------------------------------------------------------------------------
(* The translation of a RegExp match as the specification states it *)

\* the index of the "]" that closes the bracket expression whose content
\* starts at index i (an escaped character is part of the content), or 0
RECURSIVE ClosingBracket(_, _)
ClosingBracket(s, i) ==
    IF i > Len(s) THEN 0
    ELSE IF s[i] = "\\" THEN ClosingBracket(s, i + 2)
         ELSE IF s[i] = "]" THEN i
              ELSE ClosingBracket(s, i + 1)

WithoutSpaces(s) == SelectSeq(s, LAMBDA c : c # " ")

\* every bracket expression that holds a space becomes the alternation of
\* the expression without the space and %20; every other space becomes %20
RECURSIVE EscapeSpacesFrom(_, _)
EscapeSpacesFrom(s, i) ==
    IF i > Len(s) THEN <<>>
    ELSE IF s[i] = "\\" /\ i < Len(s)
         THEN <<s[i]>> \o (IF s[i + 1] = " " THEN <<"%", "2", "0">> ELSE <<s[i + 1]>>)
                  \o EscapeSpacesFrom(s, i + 2)
         ELSE IF s[i] = "[" /\ ClosingBracket(s, i + 1) # 0
              THEN LET close == ClosingBracket(s, i + 1)
                       content == SubSeq(s, i + 1, close - 1)
                   IN  (IF \E k \in 1..Len(content) : content[k] = " "
                        THEN <<"(", "?", ":", "[">> \o WithoutSpaces(content)
                                 \o <<"]", "|", "%", "2", "0", ")">>
                        ELSE SubSeq(s, i, close))
                           \o EscapeSpacesFrom(s, close + 1)
              ELSE (IF s[i] = " " THEN <<"%", "2", "0">> ELSE <<s[i]>>)
                       \o EscapeSpacesFrom(s, i + 1)

\* the source of the regular expression, "\/" unescaped, spaces escaped
StatedTranslation(re) ==
    EscapeSpacesFrom(ReplaceAll(re.source, <<"\\", "/">>, <<"/">>), 1)

\* C7: the pattern emitted for a RegExp match is its source with the
\* delimiters stripped and "\/" unescaped, every bracket expression with a
\* space replaced by (?:[...]|%20), every space outside one by %20.
PatternIsStatedTranslation ==
    (Generated /\ ~error)
        => \A i \in 1..NRedirects :
              cfg.redirects.v[i].match.t = "regexp"
                  => RedirectLine(i) =
                        <<"R", "e", "d", "i", "r", "e", "c", "t", "M", "a", "t", "c", "h", " ">>
                            \o StatusAsGiven(cfg.redirects.v[i].code) \o <<" ">>
                            \o StatedTranslation(cfg.redirects.v[i].match)
                            \o <<" ">> \o cfg.redirects.v[i].url

====
